---------------------------- MODULE Spec2Model ----------------------------
(***************************************************************************)
(* A model of morgan's registry client (src/morgan/registry.py).            *)
(*                                                                         *)
(* Text (URLs, Link headers) is a sequence of symbols.  A one-character     *)
(* symbol is that character; a longer symbol ("base/packages", "u1") stands *)
(* for a run of characters none of which is a delimiter, a quote, white     *)
(* space or an upper-case letter.  A JSON object is a function from field   *)
(* names to values; dict.get(k) is Get.  Every package record carries an    *)
(* id.                                                                      *)
(*                                                                         *)
(* A has_package call takes one step per HTTP request: has_package runs to  *)
(* its first request (or to its end when all it reads is cached),           *)
(* fetch_page is one turn of the loop of _fetch_paginated_api, and          *)
(* store_results is the return of that function into the caller, which      *)
(* stores the list and runs on to the next request or to the end.  What a   *)
(* request comes back with is the server's choice at each request.          *)
(***************************************************************************)
EXTENDS Integers, Sequences, FiniteSets, TLC

\* Python's None
None == "None"
\* None where text (a sequence of symbols) is expected: Optional[str]
NoneText == <<None>>

\* ------------------------------------------------------------------------
\* str primitives used by _parse_link_header

\* characters removed by str.strip() and separating tokens in str.split()
Whitespace == {" ", "\t"}

\* str.lower() on one character
LowerChar(c) ==
    CASE c = "N" -> "n"
      [] c = "E" -> "e"
      [] c = "X" -> "x"
      [] c = "T" -> "t"
      [] c = "R" -> "r"
      [] c = "L" -> "l"
      [] c = "P" -> "p"
      [] c = "V" -> "v"
      [] c = "U" -> "u"
      [] OTHER -> c

\* str.lower()
Lower(s) == [i \in 1..Len(s) |-> LowerChar(s[i])]

\* str.strip()
Strip(s) ==
    LET keep == {i \in 1..Len(s) : s[i] \notin Whitespace}
    IN  IF keep = {} THEN <<>>
        ELSE LET lo == CHOOSE i \in keep : \A j \in keep : i <= j
                 hi == CHOOSE i \in keep : \A j \in keep : j <= i
             IN  SubSeq(s, lo, hi)

\* sep in s
Contains(s, sep) == \E i \in 1..Len(s) : s[i] = sep

\* index of the first occurrence of sep in s (s must contain it)
FirstIndex(s, sep) ==
    CHOOSE i \in 1..Len(s) : s[i] = sep /\ \A j \in 1..(i - 1) : s[j] # sep

\* str.split(sep): the pieces between the separators, empty pieces kept
RECURSIVE Split(_, _)
Split(s, sep) ==
    IF ~Contains(s, sep) THEN <<s>>
    ELSE LET i == FirstIndex(s, sep)
         IN  <<SubSeq(s, 1, i - 1)>> \o Split(SubSeq(s, i + 1, Len(s)), sep)

\* str.split(): the maximal runs of non-whitespace characters
RECURSIVE SplitWhitespace(_)
SplitWhitespace(s) ==
    LET t == Strip(s)
    IN  IF t = <<>> THEN <<>>
        ELSE LET ws == {i \in 1..Len(t) : t[i] \in Whitespace}
             IN  IF ws = {} THEN <<t>>
                 ELSE LET i == CHOOSE k \in ws : \A j \in ws : k <= j
                      IN  <<SubSeq(t, 1, i - 1)>>
                            \o SplitWhitespace(SubSeq(t, i + 1, Len(t)))

\* str.startswith(c) / str.endswith(c) for a one-character c
StartsWith(s, c) == Len(s) >= 1 /\ s[1] = c
EndsWith(s, c) == Len(s) >= 1 /\ s[Len(s)] = c

\* s[1:-1]
Inner(s) == SubSeq(s, 2, Len(s) - 1)

\* dict.get(key): the value, or None when the key is absent
Get(obj, key) == IF key \in DOMAIN obj THEN obj[key] ELSE None

\* d.setdefault(key, value): an existing key keeps its value
PutKeepsFirst(d, key, value) ==
    [k \in DOMAIN d \cup {key} |-> IF k \in DOMAIN d THEN d[k] ELSE value]

\* d[key] = value on a dict
Put(d, key, value) ==
    [k \in DOMAIN d \cup {key} |-> IF k = key THEN value ELSE d[k]]

\* the empty dict
EmptyDict == [k \in {} |-> None]

\* ------------------------------------------------------------------------
\* GitLabRegistry._parse_link_header

REL == <<"r", "e", "l">>

\* links after the relation tokens toks[i..] are mapped to url, in order
RECURSIVE PutAll(_, _, _, _)
PutAll(links, toks, i, url) ==
    IF i > Len(toks) THEN links
    ELSE PutAll(Put(links, Lower(toks[i]), url), toks, i + 1, url)

\* a parameter whose quoted rel value is one relation token, spaces and all
ParseParamKeepsQuotedWhole(links, rawparam, url) ==
    LET param == Strip(rawparam)
    IN  IF ~Contains(param, "=") THEN links
        ELSE LET i == FirstIndex(param, "=")
                 name == Lower(Strip(SubSeq(param, 1, i - 1)))
                 value == Strip(SubSeq(param, i + 1, Len(param)))
             IN  IF name # REL THEN links
                 ELSE IF StartsWith(value, "\"") /\ EndsWith(value, "\"")
                      THEN Put(links, Lower(Inner(value)), url)
                      ELSE Put(links, Lower(value), url)

\* one parameter of a section (the body of the loop at line 134)
ParseParam(links, rawparam, url) ==
    LET param == Strip(rawparam)
    IN  IF ~Contains(param, "=") THEN links
        ELSE LET i == FirstIndex(param, "=")
                 name == Lower(Strip(SubSeq(param, 1, i - 1)))
                 value == Strip(SubSeq(param, i + 1, Len(param)))
             IN  IF name # REL THEN links
                 ELSE IF StartsWith(value, "\"") /\ EndsWith(value, "\"")
                      THEN PutAll(links, SplitWhitespace(Inner(value)), 1, url)
                      ELSE Put(links, Lower(value), url)

RECURSIVE ParseParams(_, _, _, _)
ParseParams(links, parts, i, url) ==
    IF i > Len(parts) THEN links
    ELSE ParseParams(ParseParam(links, parts[i], url), parts, i + 1, url)

\* a section that ends the parsing with nothing (return {} for continue)
\* when its first segment is not <...>
ParseSectionGivesUp(links, rawsection) ==
    LET section == Strip(rawsection)
    IN  IF section = <<>> THEN links
        ELSE LET parts == Split(section, ";")
                 url_part == Strip(parts[1])
             IN  IF ~(StartsWith(url_part, "<") /\ EndsWith(url_part, ">"))
                 THEN EmptyDict
                 ELSE ParseParams(links, parts, 2, Inner(url_part))

\* one section of the header (the body of the loop at line 114)
ParseSection(links, rawsection) ==
    LET section == Strip(rawsection)
    IN  IF section = <<>> THEN links
        ELSE LET parts == Split(section, ";")
                 url_part == Strip(parts[1])
             IN  IF ~(StartsWith(url_part, "<") /\ EndsWith(url_part, ">"))
                 THEN links
                 ELSE ParseParams(links, parts, 2, Inner(url_part))

RECURSIVE ParseSections(_, _, _)
ParseSections(links, sections, i) ==
    IF i > Len(sections) THEN links
    ELSE ParseSections(ParseSection(links, sections[i]), sections, i + 1)

_parse_link_header(link_header) ==
    IF link_header = NoneText \/ link_header = <<>> THEN EmptyDict
    ELSE ParseSections(EmptyDict, Split(link_header, ","), 1)

\* truthiness of an Optional[str]: neither None nor ""
Truthy(text) == text # NoneText /\ text # <<>>

\* dict.get(key) for a dict whose values are text
GetText(obj, key) == IF key \in DOMAIN obj THEN obj[key] ELSE NoneText

\* ------------------------------------------------------------------------
\* Bounds of the model

\* has_package calls in one behaviour
MaxCalls == 2
\* pages the server chains in one pagination walk
MaxPages == 2
\* requests of one walk, past MaxPages, that the model follows on a server
\* whose next links lead back to pages it has served
MaxRevisits == 1

\* ------------------------------------------------------------------------
\* The data the remote registry can serve

\* page size requested by _fetch_paginated_api
PerPage == 100

PackageIds == {1, 2}

\* PackageRecord objects: id and name are read, a record may lack its name
PkgA1 == [id |-> 1, name |-> "a"]
PkgA2 == [id |-> 2, name |-> "a"]
PkgB2 == [id |-> 2, name |-> "b"]
PkgN2 == [id |-> 2]

\* PackageFileRecord objects: file_name and the file_<alg> fields are read
FileF1 == [file_name |-> "f", file_sha256 |-> "h1", file_md5 |-> "h2"]
FileF2 == [file_name |-> "f", file_sha256 |-> "h2"]
FileG1 == [file_name |-> "g", file_sha256 |-> "h1"]
FileF0 == [file_name |-> "f"]

\* the cache slots / API endpoints of one registry
PackagesEndpoint == <<"packages", 0>>
FilesEndpoint(package_id) == <<"package_files", package_id>>
Endpoints == {PackagesEndpoint} \cup {FilesEndpoint(i) : i \in PackageIds}

\* JSON list bodies a page of an endpoint can carry
Bodies(endpoint) ==
    IF endpoint = PackagesEndpoint
    THEN {<<>>, <<PkgN2, PkgA1>>, <<PkgB2, PkgA2>>}
    ELSE {<<FileG1>>, <<FileF1, FileF2>>, <<FileF0>>}

\* URLs a Link header of the server can name
NextUrls == {<<"u1">>, <<"U", "2">>}

QUOTE == "\""
Rel(token) == <<";", " ">> \o REL \o <<"=", QUOTE>> \o token \o <<QUOTE>>
NEXT == <<"n", "e", "x", "t">>
PREV == <<"p", "r", "e", "v">>

\* <u>; rel="next"
LinkNext(u) == <<"<">> \o u \o <<">">> \o Rel(NEXT)
\* <u1>; rel="prev", <u>; rel="Next"   (several sections, mixed case)
LinkPrevNext(u) ==
    <<"<", "u1", ">">> \o Rel(PREV) \o <<",", " ", "<">> \o u \o <<">">>
        \o Rel(<<"N", "e", "x", "t">>)
\* <u1>; rel="prev"   (a header without a next relation)
LinkPrevOnly == <<"<", "u1", ">">> \o Rel(PREV)
\* <>; rel="next"   (a next relation whose URL is empty)
LinkEmptyNext == <<"<", ">">> \o Rel(NEXT)

\* response headers: a dict that holds "Link" or not.  A "gitlab" server
\* sends no Link header on the last page and <u>; rel="next" before it; an
\* "any" server sends whatever an HTTP server may send; a "cyclic" server
\* has the page u1 besides the first and may link to it from any page, also
\* from u1 itself; a "small" server is a "gitlab" server whose every list
\* fits one page.  more: the server has a further page to link to.
Headers(kind, more) ==
    IF kind = "gitlab"
    THEN IF more THEN {EmptyDict, [Link |-> LinkNext(<<"u1">>)]}
         ELSE {EmptyDict}
    ELSE IF kind = "small" THEN {EmptyDict}
    ELSE IF kind = "cyclic"
         THEN {EmptyDict, [Link |-> LinkNext(<<"u1">>)]}
         ELSE {EmptyDict, [Link |-> <<>>], [Link |-> LinkPrevOnly],
               [Link |-> LinkEmptyNext]}
                 \cup (IF more
                       THEN {[Link |-> LinkNext(u)] : u \in NextUrls}
                              \cup {[Link |-> LinkPrevNext(<<"u1">>)]}
                       ELSE {})

\* what one GET can come back with: urlopen raising URLError, json.load
\* raising JSONDecodeError, a JSON value that is no list, or a JSON list (a
\* "small" server answers with a list or not at all)
Failure(kind) == [kind |-> kind, body |-> <<>>, headers |-> EmptyDict]
Responses(kind, endpoint, more) ==
    (IF kind = "small" THEN {Failure("URLError")}
     ELSE {Failure("URLError"), Failure("JSONDecodeError"),
           Failure("notlist")})
        \cup {[kind |-> "list", body |-> b, headers |-> h] :
                 b \in Bodies(endpoint), h \in Headers(kind, more)}

\* arguments of has_package
FileNames == {"f"}
PackageNames == {"a"}
HashAlgs == {"sha256", "md5"}
ExpectedHashes == {"h1", None}

\* f"file_{hash_alg}"
HashField(hash_alg) ==
    CASE hash_alg = "sha256" -> "file_sha256"
      [] hash_alg = "md5" -> "file_md5"

\* ------------------------------------------------------------------------
\* State

VARIABLES
    packages_cache,       \* self._packages_cache: Optional[list]
    package_files_cache,  \* self._package_files_cache: dict[int, list]
    call,                 \* per calling thread: the frame of its has_package call
    hist,                 \* per calling thread: what its calls requested and got
    stats,                \* per endpoint: walks started and completed since the
                          \* registry was built or last cleared; wiped: the
                          \* last clear_cache dropped a fetched package list
    op,                   \* the operation that took the last step
    server,               \* the kind of server behind registry_url
    calls_left,           \* has_package calls the caller has yet to make
    index_path,           \* LocalRegistry: self.index_path
    hash_file_func,       \* LocalRegistry: self.hash_file_func, as the table
                          \* of what it returns for a file and an algorithm
    disk,                 \* the files that exist, by normalised path
    local,                \* LocalRegistry: the frame of the last has_package
    lists,                \* the list objects the caller of a
                          \* ListExtendingOrderedDict has built, by identity
    d,                    \* a ListExtendingOrderedDict: its keys in insertion
                          \* order and the value at each key
    assigned,             \* the last d[key] = value: key, value, the items
                          \* of value when it was assigned, the exception
    parser                \* a call of _parse_link_header on its own: the
                          \* header it is given, the sections the header was
                          \* written from, and the dict it returns

\* the fields of a LocalRegistry and what it reads
local_vars == <<index_path, hash_file_func, disk, local>>

\* a ListExtendingOrderedDict and the objects assigned to it
dict_vars == <<lists, d, assigned>>

vars ==
    <<packages_cache, package_files_cache, call, hist, stats, op, server,
      calls_left, local_vars, dict_vars, parser>>

Threads == DOMAIN call

\* an Optional[list]: None, or a list (which may be empty)
Unfetched == [fetched |-> FALSE, data |-> <<>>]
Fetched(list) == [fetched |-> TRUE, data |-> list]

\* how a call ends: a returned bool, or a raised exception
NoOutcome == [exc |-> None, value |-> None, cause |-> None]
Return(b) == [exc |-> None, value |-> b, cause |-> None]
Raise(msg, cause) == [exc |-> "RuntimeError", value |-> msg, cause |-> cause]

FailedToRead == "Failed to read data from current_url"
UnexpectedFormat == "Unexpected response format, expected a list"
\* a slip: the hash mismatch is raised with the message of a failed read
HashMismatchAsReadFailure == "Failed to read data from current_url"
HashMismatch == "Hash of file_name does not match, unknown how to proceed"

IdleFrame ==
    [pc |-> "idle", file_name |-> None, package_name |-> None,
     hash_alg |-> None, expected_hash |-> None, packages |-> <<>>, idx |-> 0,
     endpoint |-> PackagesEndpoint, current_url |-> NoneText,
     results |-> <<>>, outcome |-> NoOutcome]

NoPrev ==
    [valid |-> FALSE, file_name |-> None, package_name |-> None,
     hash_alg |-> None, expected_hash |-> None, outcome |-> NoOutcome,
     reqs |-> <<>>]

NoHist ==
    [reqs |-> <<>>, wreqs |-> <<>>, wresps |-> <<>>, prev |-> NoPrev,
     after_clear |-> FALSE]

NoStats ==
    [started |-> [e \in Endpoints |-> 0],
     completed |-> [e \in Endpoints |-> 0], wiped |-> FALSE]

\* ------------------------------------------------------------------------
\* GitLabRegistry

\* f"{registry_url}/api/v4/projects/{project}/packages" and
\* f".../packages/{package_id}/package_files"
ApiUrl(endpoint) ==
    IF endpoint = PackagesEndpoint THEN <<"base/packages">>
    ELSE <<"base/packages/", ToString(endpoint[2]), "/package_files">>

\* a slip: the page size is left off the first request
FirstUrlBare(api_url) == api_url

\* api_url + "?per_page=100"
FirstUrl(api_url) == api_url \o <<"?per_page=", ToString(PerPage)>>

\* a slip: "if self._packages_cache:", which takes an empty list for unfetched
PackagesCachedTruthy(cache) == cache.fetched /\ cache.data # <<>>

\* _fetch_packages_list: the cache test
PackagesCached(cache) == cache.fetched

\* a slip: the file lists are fetched on every use
FilesCachedNever(cache, package_id) == FALSE

\* _fetch_package_files: the cache test
FilesCached(cache, package_id) == package_id \in DOMAIN cache

\* a slip: a record whose hash differs is skipped like one of another name
RECURSIVE ScanFilesSkipMismatch(_, _, _)
ScanFilesSkipMismatch(files, j, f) ==
    IF j > Len(files) THEN NoOutcome
    ELSE IF Get(files[j], "file_name") # f.file_name
         THEN ScanFilesSkipMismatch(files, j + 1, f)
         ELSE IF Get(files[j], HashField(f.hash_alg)) = f.expected_hash
              THEN Return("True")
              ELSE ScanFilesSkipMismatch(files, j + 1, f)

\* a slip: the last record of the name decides, not the first
RECURSIVE ScanFilesLastMatch(_, _, _)
ScanFilesLastMatch(files, j, f) ==
    IF j > Len(files) THEN NoOutcome
    ELSE IF Get(files[j], "file_name") # f.file_name
              \/ ScanFilesLastMatch(files, j + 1, f) # NoOutcome
         THEN ScanFilesLastMatch(files, j + 1, f)
         ELSE IF Get(files[j], HashField(f.hash_alg)) = f.expected_hash
              THEN Return("True")
              ELSE Raise(HashMismatch, None)

\* a slip: LocalRegistry's existence-only check when expected_hash is absent
RECURSIVE ScanFilesExistenceOnly(_, _, _)
ScanFilesExistenceOnly(files, j, f) ==
    IF j > Len(files) THEN NoOutcome
    ELSE IF Get(files[j], "file_name") # f.file_name
         THEN ScanFilesExistenceOnly(files, j + 1, f)
         ELSE IF f.expected_hash = None
                   \/ Get(files[j], HashField(f.hash_alg)) = f.expected_hash
              THEN Return("True")
              ELSE Raise(HashMismatch, None)

\* has_package: the loop over the files of one package, from files[j] on
RECURSIVE ScanFiles(_, _, _)
ScanFiles(files, j, f) ==
    IF j > Len(files) THEN NoOutcome
    ELSE IF Get(files[j], "file_name") # f.file_name
         THEN ScanFiles(files, j + 1, f)
         ELSE IF Get(files[j], HashField(f.hash_alg)) = f.expected_hash
              THEN Return("True")
              ELSE Raise(HashMismatch, None)

\* a slip: false is returned at the first package of the name that lacks
\* the file
RECURSIVE ScanPackagesFirstOnly(_, _, _, _)
ScanPackagesFirstOnly(packages, i, cache, f) ==
    IF i > Len(packages) THEN [fetch |-> 0, outcome |-> Return("False")]
    ELSE IF Get(packages[i], "name") # f.package_name
         THEN ScanPackagesFirstOnly(packages, i + 1, cache, f)
         ELSE IF ~FilesCached(cache, Get(packages[i], "id"))
              THEN [fetch |-> i, outcome |-> NoOutcome]
              ELSE LET r == ScanFiles(cache[Get(packages[i], "id")], 1, f)
                   IN  IF r # NoOutcome THEN [fetch |-> 0, outcome |-> r]
                       ELSE [fetch |-> 0, outcome |-> Return("False")]

\* has_package: the loop over the packages, from packages[i] on, as far as it
\* gets without a request: to the outcome, or to the package whose files are
\* not cached (fetch is its index)
RECURSIVE ScanPackages(_, _, _, _)
ScanPackages(packages, i, cache, f) ==
    IF i > Len(packages) THEN [fetch |-> 0, outcome |-> Return("False")]
    ELSE IF Get(packages[i], "name") # f.package_name
         THEN ScanPackages(packages, i + 1, cache, f)
         ELSE IF ~FilesCached(cache, Get(packages[i], "id"))
              THEN [fetch |-> i, outcome |-> NoOutcome]
              ELSE LET r == ScanFiles(cache[Get(packages[i], "id")], 1, f)
                   IN  IF r # NoOutcome THEN [fetch |-> 0, outcome |-> r]
                       ELSE ScanPackages(packages, i + 1, cache, f)

\* _fetch_paginated_api: results = [], current_url = api_url + "?per_page=100"
StartWalk(f, endpoint) ==
    [f EXCEPT !.pc = "request", !.endpoint = endpoint, !.results = <<>>,
              !.current_url = FirstUrl(ApiUrl(endpoint))]

\* has_package from packages[i] on: the frame at its end or at its next walk
Scan(f, packages, i, cache) ==
    LET r == ScanPackages(packages, i, cache, f)
        g == [f EXCEPT !.packages = packages, !.idx = r.fetch]
    IN  IF r.fetch = 0 THEN [g EXCEPT !.pc = "done", !.outcome = r.outcome]
        ELSE StartWalk(g, FilesEndpoint(Get(packages[r.fetch], "id")))

\* a slip: "results = page_data", which drops the pages read before
PageResultLastPageOnly(f, resp) ==
    CASE resp.kind \in {"URLError", "JSONDecodeError"} ->
            [f EXCEPT !.pc = "done", !.outcome = Raise(FailedToRead, resp.kind)]
      [] resp.kind = "notlist" ->
            [f EXCEPT !.pc = "done", !.outcome = Raise(UnexpectedFormat, None)]
      [] resp.kind = "list" ->
            LET results == resp.body
                link_header == GetText(resp.headers, "Link")
            IN  IF ~Truthy(link_header)
                THEN [f EXCEPT !.pc = "store", !.results = results]
                ELSE LET next == GetText(_parse_link_header(link_header), NEXT)
                     IN  [f EXCEPT !.results = results, !.current_url = next,
                                   !.pc = IF Truthy(next) THEN "request"
                                          ELSE "store"]

\* a slip: a failed GET ends the walk like a last page, with what was read
PageResultKeepsPartial(f, resp) ==
    CASE resp.kind \in {"URLError", "JSONDecodeError"} ->
            [f EXCEPT !.pc = "store"]
      [] resp.kind = "notlist" ->
            [f EXCEPT !.pc = "done", !.outcome = Raise(UnexpectedFormat, None)]
      [] resp.kind = "list" ->
            LET results == f.results \o resp.body
                link_header == GetText(resp.headers, "Link")
            IN  IF ~Truthy(link_header)
                THEN [f EXCEPT !.pc = "store", !.results = results]
                ELSE LET next == GetText(_parse_link_header(link_header), NEXT)
                     IN  [f EXCEPT !.results = results, !.current_url = next,
                                   !.pc = IF Truthy(next) THEN "request"
                                          ELSE "store"]

\* a slip: a failed GET is swallowed and the walk returns an empty list
PageResultFailureAsEmpty(f, resp) ==
    CASE resp.kind \in {"URLError", "JSONDecodeError"} ->
            [f EXCEPT !.pc = "store", !.results = <<>>]
      [] resp.kind = "notlist" ->
            [f EXCEPT !.pc = "done", !.outcome = Raise(UnexpectedFormat, None)]
      [] resp.kind = "list" ->
            LET results == f.results \o resp.body
                link_header == GetText(resp.headers, "Link")
            IN  IF ~Truthy(link_header)
                THEN [f EXCEPT !.pc = "store", !.results = results]
                ELSE LET next == GetText(_parse_link_header(link_header), NEXT)
                     IN  [f EXCEPT !.results = results, !.current_url = next,
                                   !.pc = IF Truthy(next) THEN "request"
                                          ELSE "store"]

\* a slip: a next link that names the page just read is taken for the end of
\* the chain
PageResultStopsAtSelfLink(f, resp) ==
    CASE resp.kind \in {"URLError", "JSONDecodeError"} ->
            [f EXCEPT !.pc = "done", !.outcome = Raise(FailedToRead, resp.kind)]
      [] resp.kind = "notlist" ->
            [f EXCEPT !.pc = "done", !.outcome = Raise(UnexpectedFormat, None)]
      [] resp.kind = "list" ->
            LET results == f.results \o resp.body
                link_header == GetText(resp.headers, "Link")
            IN  IF ~Truthy(link_header)
                THEN [f EXCEPT !.pc = "store", !.results = results]
                ELSE LET next == GetText(_parse_link_header(link_header), NEXT)
                     IN  [f EXCEPT !.results = results, !.current_url = next,
                                   !.pc = IF Truthy(next)
                                             /\ next # f.current_url
                                          THEN "request" ELSE "store"]

\* _fetch_paginated_api: one turn of the while loop, given what the GET of
\* current_url came back with
PageResult(f, resp) ==
    CASE resp.kind \in {"URLError", "JSONDecodeError"} ->
            [f EXCEPT !.pc = "done", !.outcome = Raise(FailedToRead, resp.kind)]
      [] resp.kind = "notlist" ->
            [f EXCEPT !.pc = "done", !.outcome = Raise(UnexpectedFormat, None)]
      [] resp.kind = "list" ->
            LET results == f.results \o resp.body
                link_header == GetText(resp.headers, "Link")
            IN  IF ~Truthy(link_header)
                THEN [f EXCEPT !.pc = "store", !.results = results]
                ELSE LET next == GetText(_parse_link_header(link_header), NEXT)
                     IN  [f EXCEPT !.results = results, !.current_url = next,
                                   !.pc = IF Truthy(next) THEN "request"
                                          ELSE "store"]

\* stats.started after a step that leaves its thread in frame g: a frame at
\* "request" has just entered _fetch_paginated_api for g.endpoint
Started(g) ==
    IF g.pc = "request"
    THEN [stats.started EXCEPT ![g.endpoint] = @ + 1]
    ELSE stats.started

\* has_package(file_name, package_name, hash_alg, expected_hash), up to its
\* first request or, with everything cached, to its end
has_package(t, file_name, package_name, hash_alg, expected_hash) ==
    /\ call[t].pc \in {"idle", "done"}
    /\ calls_left > 0
    /\ LET f == [IdleFrame EXCEPT !.file_name = file_name,
                                  !.package_name = package_name,
                                  !.hash_alg = hash_alg,
                                  !.expected_hash = expected_hash]
           g == IF PackagesCached(packages_cache)
                THEN Scan(f, packages_cache.data, 1, package_files_cache)
                ELSE StartWalk(f, PackagesEndpoint)
           old == call[t]
           prev == IF old.pc = "done" /\ op # "clear_cache"
                   THEN [valid |-> TRUE, file_name |-> old.file_name,
                         package_name |-> old.package_name,
                         hash_alg |-> old.hash_alg,
                         expected_hash |-> old.expected_hash,
                         outcome |-> old.outcome, reqs |-> hist[t].reqs]
                   ELSE NoPrev
       IN  /\ call' = [call EXCEPT ![t] = g]
           /\ hist' = [hist EXCEPT ![t] =
                         [NoHist EXCEPT !.prev = prev,
                                        !.after_clear = (op = "clear_cache")]]
           /\ stats' = [stats EXCEPT !.started = Started(g)]
    /\ op' = "has_package"
    /\ calls_left' = calls_left - 1
    /\ UNCHANGED <<packages_cache, package_files_cache, server>>
    /\ UNCHANGED <<local_vars, dict_vars, parser>>

\* one GET of _fetch_paginated_api and the rest of that turn of the loop
fetch_page(t) ==
    /\ call[t].pc = "request"
    /\ Len(hist[t].wreqs) < MaxPages + MaxRevisits
    /\ \E resp \in Responses(server, call[t].endpoint,
                             Len(hist[t].wreqs) + 1 < MaxPages) :
          /\ call' = [call EXCEPT ![t] = PageResult(call[t], resp)]
          /\ hist' = [hist EXCEPT
                        ![t].reqs = Append(@, call[t].current_url),
                        ![t].wreqs = Append(@, call[t].current_url),
                        ![t].wresps = Append(@, resp)]
    /\ op' = "fetch_page"
    /\ UNCHANGED <<packages_cache, package_files_cache, stats, server,
                   calls_left>>
    /\ UNCHANGED <<local_vars, dict_vars, parser>>

\* a slip that would make the step atomic: the slot is tested again under a
\* lock and a list that is there is kept
StoredPackagesKeepFirst(f) ==
    IF packages_cache.fetched THEN packages_cache ELSE Fetched(f.results)

\* the value _fetch_packages_list assigns to self._packages_cache
StoredPackages(f) == Fetched(f.results)

\* a slip: the fetched file list is returned without being stored
StoredFilesDropped(cache, f) == cache

\* self._package_files_cache after _fetch_package_files assigned to it
StoredFiles(cache, f) == Put(cache, f.endpoint[2], f.results)

\* _fetch_paginated_api returns: the caller stores the list in its cache
\* slot and has_package goes on with it, to its next request or to its end
store_results(t) ==
    /\ call[t].pc = "store"
    /\ LET f == call[t]
           cache == IF f.endpoint = PackagesEndpoint THEN package_files_cache
                    ELSE StoredFiles(package_files_cache, f)
           r == ScanFiles(f.results, 1, f)
           g == IF f.endpoint = PackagesEndpoint
                THEN Scan(f, StoredPackages(f).data, 1, cache)
                ELSE IF r # NoOutcome
                     THEN [f EXCEPT !.pc = "done", !.outcome = r]
                     ELSE Scan(f, f.packages, f.idx + 1, cache)
       IN  /\ packages_cache' = IF f.endpoint = PackagesEndpoint
                                THEN StoredPackages(f) ELSE packages_cache
           /\ package_files_cache' = cache
           /\ call' = [call EXCEPT ![t] = g]
           /\ hist' = [hist EXCEPT
                         ![t].wreqs = IF g.pc = "request" THEN <<>> ELSE @,
                         ![t].wresps = IF g.pc = "request" THEN <<>> ELSE @]
           /\ stats' = [stats EXCEPT
                          !.started = Started(g),
                          !.completed = [stats.completed EXCEPT
                                           ![f.endpoint] = @ + 1]]
    /\ op' = "store_results"
    /\ UNCHANGED <<server, calls_left>>
    /\ UNCHANGED <<local_vars, dict_vars, parser>>

\* clear_cache: the new values of the two fields
ClearedPackages == Unfetched
\* a slip: clear_cache forgets the file lists
ClearedFilesKept == package_files_cache
ClearedFiles == EmptyDict

clear_cache(t) ==
    /\ call[t].pc \in {"idle", "done"}
    /\ packages_cache' = ClearedPackages
    /\ package_files_cache' = ClearedFiles
    /\ stats' = [NoStats EXCEPT
                    !.wiped = IF op = "clear_cache" THEN stats.wiped
                              ELSE packages_cache.fetched]
    /\ op' = "clear_cache"
    /\ UNCHANGED <<call, hist, server, calls_left>>
    /\ UNCHANGED <<local_vars, dict_vars, parser>>

\* ------------------------------------------------------------------------
\* ListExtendingOrderedDict (src/morgan/utils.py)

\* bounds: the list objects a behaviour builds, and the length a list grows to
MaxLists == 2
MaxListLen == 3

\* a value: a reference to a list object, or anything that is no list
ListRef(id) == [is_list |-> TRUE, at |-> id, val |-> None]
Scalar(x) == [is_list |-> FALSE, at |-> 0, val |-> x]

DictKeys == {"k1", "k2"}
Scalars == {Scalar("x"), Scalar("y")}
\* the list literals a caller assigns
ListLiterals == {<<>>, <<"a">>, <<"b", "c">>}

\* a slip: the plain OrderedDict assignment, which replaces
SetItemReplaces(ls, dd, key, value) ==
    [lists |-> ls,
     d |-> [keys |-> IF key \in DOMAIN dd.vals THEN dd.keys
                     ELSE Append(dd.keys, key),
            vals |-> Put(dd.vals, key, value)],
     raised |-> None]

\* __setitem__(key, value) on the dict dd with the list objects ls: the
\* objects and the dict after it, and the exception it raised
SetItem(ls, dd, key, value) ==
    IF value.is_list /\ key \in DOMAIN dd.vals
    THEN LET cur == dd.vals[key]
         IN  IF cur.is_list
             THEN [lists |-> [ls EXCEPT ![cur.at] = @ \o ls[value.at]],
                   d |-> dd, raised |-> None]
             ELSE [lists |-> ls, d |-> dd, raised |-> "AttributeError"]
    ELSE [lists |-> ls,
          d |-> [keys |-> IF key \in DOMAIN dd.vals THEN dd.keys
                          ELSE Append(dd.keys, key),
                 vals |-> Put(dd.vals, key, value)],
          raised |-> None]

\* the lists stay within MaxListLen
Bounded(ls) == \A i \in 1..Len(ls) : Len(ls[i]) <= MaxListLen

\* d[key] = value, for a value that exists: a non-list, or a list object
\* built before (which the dict may hold already)
__setitem__(key, value) ==
    LET r == SetItem(lists, d, key, value)
    IN  /\ Bounded(r.lists)
        /\ lists' = r.lists
        /\ d' = r.d
        /\ assigned' = [key |-> key, value |-> value,
                        items |-> IF value.is_list THEN lists[value.at]
                                  ELSE <<>>,
                        raised |-> r.raised]
        /\ op' = "setitem"
        /\ UNCHANGED <<packages_cache, package_files_cache, call, hist,
                       stats, server, calls_left, local_vars, parser>>

\* d[key] = [...]: a list literal builds a list object and assigns it
setitem_literal(key, items) ==
    /\ Len(lists) < MaxLists
    /\ LET value == ListRef(Len(lists) + 1)
           r == SetItem(Append(lists, items), d, key, value)
       IN  /\ Bounded(r.lists)
           /\ lists' = r.lists
           /\ d' = r.d
           /\ assigned' = [key |-> key, value |-> value, items |-> items,
                           raised |-> r.raised]
    /\ op' = "setitem"
    /\ UNCHANGED <<packages_cache, package_files_cache, call, hist, stats,
                   server, calls_left, local_vars, parser>>

\* an empty ListExtendingOrderedDict
EmptyOrderedDict == [keys |-> <<>>, vals |-> EmptyDict]
NotAssigned ==
    [key |-> None, value |-> Scalar(None), items |-> <<>>, raised |-> None]

\* no ListExtendingOrderedDict is in use
NoDict ==
    /\ lists = <<>>
    /\ d = EmptyOrderedDict
    /\ assigned = NotAssigned

\* ------------------------------------------------------------------------
\* A call of GitLabRegistry._parse_link_header on its own.  The header is
\* written out from a list of sections (RFC 8288 layout: sections joined by
\* ",", segments of a section joined by ";"), so that what each section
\* and parameter was meant to say is known beside the text that is parsed.

\* largest number of sections in a header
MaxSections == 2

\* a relation token as written in the header, and the key it stands for
Tok(raw, key) == [raw |-> raw, key |-> key]
TokNext == Tok(NEXT, NEXT)
TokPrev == Tok(PREV, PREV)
TokNextCapital == Tok(<<"N", "e", "x", "t">>, NEXT)
TokLast == Tok(<<"L", "a", "s", "t">>, <<"l", "a", "s", "t">>)
TokTwoWords ==
    Tok(NEXT \o <<" ">> \o <<"P", "r", "e", "v">>, NEXT \o <<" ">> \o PREV)

\* the first segment of a section: `<u1>`, ` <U2> `, the unbracketed `u1`
\* and the blank ` `
Bracketed(text, url) == [text |-> text, url |-> url, bracketed |-> TRUE]
Unbracketed(text) == [text |-> text, url |-> <<>>, bracketed |-> FALSE]
FirstSegments ==
    { Bracketed(<<"<", "u1", ">">>, <<"u1">>),
      Bracketed(<<" ", "<", "U", "2", ">", " ">>, <<"U", "2">>),
      Unbracketed(<<"u1">>),
      Unbracketed(<<" ">>) }

\* a parameter: name, the text between name and value (empty when the
\* parameter has no "="), and the value as a list of tokens, quoted or not
Param(name, eq, quoted, toks) ==
    [name |-> name, eq |-> eq, quoted |-> quoted, toks |-> toks]
RelQuoted(toks) == Param(REL, <<"=">>, TRUE, toks)
RelUnquoted(tok) == Param(REL, <<"=">>, FALSE, <<tok>>)
RelCapitalPadded(toks) ==
    Param(<<"R", "E", "L">>, <<" ", "=", " ">>, TRUE, toks)
Title(toks) == Param(<<"t", "i", "t", "l", "e">>, <<"=">>, TRUE, toks)
NoEquals(name) == Param(name, <<>>, FALSE, <<>>)

\* the parameter lists a section is written with:
\*   (none)                       rel="next"
\*   rel="prev Next"              rel=Last
\*   rel=next Prev                next; rel="prev"
\*   title="next"; REL = "prev"
ParamLists ==
    { <<>>,
      <<RelQuoted(<<TokNext>>)>>,
      <<RelQuoted(<<TokPrev, TokNextCapital>>)>>,
      <<RelUnquoted(TokLast)>>,
      <<RelUnquoted(TokTwoWords)>>,
      <<NoEquals(NEXT), RelQuoted(<<TokPrev>>)>>,
      <<Title(<<TokNext>>), RelCapitalPadded(<<TokPrev>>)>> }

SectionMenu ==
    { [first |-> f, params |-> ps] : f \in FirstSegments, ps \in ParamLists }

\* the headers: every list of at most MaxSections sections
HeaderMenu ==
    UNION { [1..n -> SectionMenu] : n \in 0..MaxSections }

\* the text of a list of tokens, one space between two tokens
RECURSIVE JoinTokens(_, _)
JoinTokens(toks, i) ==
    IF i > Len(toks) THEN <<>>
    ELSE (IF i > 1 THEN <<" ">> ELSE <<>>) \o toks[i].raw
             \o JoinTokens(toks, i + 1)

RenderParam(p) ==
    <<" ">> \o p.name \o p.eq
        \o (IF p.eq = <<>> THEN <<>>
            ELSE IF p.quoted THEN <<QUOTE>> \o JoinTokens(p.toks, 1) \o <<QUOTE>>
            ELSE p.toks[1].raw)

RECURSIVE RenderParams(_, _)
RenderParams(ps, i) ==
    IF i > Len(ps) THEN <<>>
    ELSE <<";">> \o RenderParam(ps[i]) \o RenderParams(ps, i + 1)

RenderSection(s) == s.first.text \o RenderParams(s.params, 1)

RECURSIVE RenderHeader(_, _)
RenderHeader(ss, i) ==
    IF i > Len(ss) THEN <<>>
    ELSE (IF i > 1 THEN <<",">> ELSE <<>>) \o RenderSection(ss[i])
             \o RenderHeader(ss, i + 1)

\* the call before it runs, given the header written from ss
Called(ss, link_header) ==
    [sections |-> ss, link_header |-> link_header, pc |-> "called",
     links |-> EmptyDict]

\* no call of _parse_link_header on its own
NoParser ==
    parser = [sections |-> <<>>, link_header |-> NoneText, pc |-> "idle",
              links |-> EmptyDict]

\* _parse_link_header(link_header), from the call to its return
parse_link_header ==
    /\ parser.pc = "called"
    /\ parser' = [parser EXCEPT !.pc = "returned",
                                !.links = _parse_link_header(parser.link_header)]
    /\ op' = "parse_link_header"
    /\ UNCHANGED <<packages_cache, package_files_cache, call, hist, stats,
                   server, calls_left, local_vars, dict_vars>>

\* ------------------------------------------------------------------------
\* LocalRegistry

\* the file a path names: empty components count for nothing ("idx//f" and
\* "idx/f" are one file)
RECURSIVE Norm(_)
Norm(path) ==
    IF Len(path) < 2 THEN path
    ELSE IF path[1] = "/" /\ path[2] = "/" THEN Norm(Tail(path))
         ELSE <<path[1]>> \o Norm(Tail(path))

\* os.path.join (POSIX), one further component: an absolute component
\* replaces what was joined before it
JoinOne(path, b) ==
    IF StartsWith(b, "/") THEN b
    ELSE IF path = <<>> \/ EndsWith(path, "/") THEN path \o b
         ELSE path \o <<"/">> \o b

\* os.path.join(a, b, c)
PathJoin(a, b, c) == JoinOne(JoinOne(a, b), c)

\* the files that may exist on the disk, by normalised path
DiskPaths ==
    {<<"idx", "/", "a", "/", "f">>, <<"idx", "/", "f">>, <<"/", "f">>}

\* what the injected hash_file_func can return
Hashes == {"h1", "h2"}

\* index_path given to __init__, and the arguments of has_package
IndexPaths == {<<"idx">>, <<"idx", "/">>}
LocalPackageNames == {<<"a">>, <<>>}
LocalFileNames == {<<"f">>, <<"g">>, <<"/", "f">>}
LocalExpectedHashes == {None, "", "h1", "h2"}

\* os.path.exists(target)
Exists(dsk, target) == Norm(target) \in dsk

\* "not expected_hash": None and the empty string
Falsy(expected_hash) == expected_hash \in {None, ""}

IdleLocal ==
    [pc |-> "idle", file_name |-> NoneText, package_name |-> NoneText,
     hash_alg |-> None, expected_hash |-> None, target |-> NoneText,
     hash_calls |-> <<>>, outcome |-> NoOutcome]

\* has_package, lines 75-78: the comparison of the two hashes
LocalVerdict(truehash, expected_hash) ==
    IF truehash # expected_hash THEN Return("False") ELSE Return("True")

\* the frame of a call with the arguments a, at line 66
LocalStart(index, a) ==
    [IdleLocal EXCEPT !.pc = "done", !.file_name = a.file_name,
                      !.package_name = a.package_name,
                      !.hash_alg = a.hash_alg,
                      !.expected_hash = a.expected_hash,
                      !.target = PathJoin(index, a.package_name, a.file_name)]

\* a slip: the file is hashed before expected_hash is looked at
LocalFrameHashesFirst(index, hashf, dsk, a) ==
    LET f == LocalStart(index, a)
    IN  IF ~Exists(dsk, f.target) THEN [f EXCEPT !.outcome = Return("False")]
        ELSE LET truehash == hashf[<<Norm(f.target), a.hash_alg>>]
                 g == [f EXCEPT !.hash_calls = <<<<f.target, a.hash_alg>>>>]
             IN  IF Falsy(a.expected_hash)
                 THEN [g EXCEPT !.outcome = Return("True")]
                 ELSE [g EXCEPT
                         !.outcome = LocalVerdict(truehash, a.expected_hash)]

\* LocalRegistry.has_package(**a): the frame at its end, for a registry built
\* with index and hashf, on a disk holding the files dsk
LocalFrame(index, hashf, dsk, a) ==
    LET f == LocalStart(index, a)
    IN  IF ~Exists(dsk, f.target) THEN [f EXCEPT !.outcome = Return("False")]
        ELSE IF Falsy(a.expected_hash)
             THEN [f EXCEPT !.outcome = Return("True")]
             ELSE LET truehash == hashf[<<Norm(f.target), a.hash_alg>>]
                  IN  [f EXCEPT
                         !.hash_calls = <<<<f.target, a.hash_alg>>>>,
                         !.outcome = LocalVerdict(truehash, a.expected_hash)]

local_has_package(file_name, package_name, hash_alg, expected_hash) ==
    /\ local' = LocalFrame(index_path, hash_file_func, disk,
                           [file_name |-> file_name,
                            package_name |-> package_name,
                            hash_alg |-> hash_alg,
                            expected_hash |-> expected_hash])
    /\ op' = "local_has_package"
    /\ UNCHANGED <<index_path, hash_file_func, disk>>
    /\ UNCHANGED <<packages_cache, package_files_cache, call, hist, stats,
                   server, calls_left>>
    /\ UNCHANGED <<dict_vars, parser>>

\* no LocalRegistry is in use
NoLocalRegistry ==
    /\ index_path = <<>>
    /\ hash_file_func = EmptyDict
    /\ disk = {}
    /\ local = IdleLocal

\* no GitLabRegistry is in use
NoGitLabRegistry ==
    /\ packages_cache = Unfetched
    /\ package_files_cache = EmptyDict
    /\ call = [t \in {} |-> IdleFrame]
    /\ hist = [t \in {} |-> NoHist]
    /\ stats = NoStats
    /\ server = "none"
    /\ calls_left = 0

\* LocalRegistry(hash_file_func, index_path) over some disk
InitLocal ==
    /\ index_path \in IndexPaths
    /\ hash_file_func \in [DiskPaths \X HashAlgs -> Hashes]
    /\ disk \in SUBSET DiskPaths
    /\ local = IdleLocal
    /\ op = "init"
    /\ NoGitLabRegistry
    /\ NoDict
    /\ NoParser

LocalHasPackage ==
    \E fn \in LocalFileNames, pn \in LocalPackageNames, alg \in HashAlgs,
       eh \in LocalExpectedHashes : local_has_package(fn, pn, alg, eh)

NextLocal == LocalHasPackage

SpecLocal == InitLocal /\ [][NextLocal]_vars

\* ------------------------------------------------------------------------
\* One ListExtendingOrderedDict and the assignments to it

InitDict ==
    /\ NoDict
    /\ NoParser
    /\ op = "init"
    /\ NoLocalRegistry
    /\ NoGitLabRegistry

SetItemValue ==
    \E key \in DictKeys :
        \E value \in Scalars \cup {ListRef(i) : i \in 1..Len(lists)} :
            __setitem__(key, value)
SetItemLiteral ==
    \E key \in DictKeys, items \in ListLiterals : setitem_literal(key, items)

NextDict == SetItemValue \/ SetItemLiteral

SpecDict == InitDict /\ [][NextDict]_vars

\* ------------------------------------------------------------------------
\* Specification of _parse_link_header called on its own: on an absent
\* header, or on the header written from any list of the header menu (the
\* empty list gives the empty header).

InitParse ==
    /\ parser \in {Called(<<>>, NoneText)}
                     \cup {Called(ss, RenderHeader(ss, 1)) : ss \in HeaderMenu}
    /\ op = "init"
    /\ NoGitLabRegistry
    /\ NoLocalRegistry
    /\ NoDict

NextParse == parse_link_header

SpecParse == InitParse /\ [][NextParse]_vars

\* ------------------------------------------------------------------------
\* One caller, as the registry is used: __init__, then calls one after another

Init ==
    /\ packages_cache = Unfetched
    /\ package_files_cache = EmptyDict
    /\ call = [t \in {1} |-> IdleFrame]
    /\ hist = [t \in {1} |-> NoHist]
    /\ stats = NoStats
    /\ op = "init"
    /\ server = "gitlab"
    /\ calls_left = MaxCalls
    /\ NoLocalRegistry
    /\ NoDict
    /\ NoParser

HasPackage ==
    \E t \in Threads, fn \in FileNames, pn \in PackageNames, alg \in HashAlgs,
       eh \in ExpectedHashes : has_package(t, fn, pn, alg, eh)
FetchPage == \E t \in Threads : fetch_page(t)
StoreResults == \E t \in Threads : store_results(t)
ClearCache == \E t \in Threads : clear_cache(t)

Next == HasPackage \/ FetchPage \/ StoreResults \/ ClearCache

Spec == Init /\ [][Next]_vars

\* ------------------------------------------------------------------------
\* One has_package call, and with it each pagination walk, against a server
\* that may send any response

InitWalk ==
    /\ packages_cache = Unfetched
    /\ package_files_cache = EmptyDict
    /\ call = [t \in {1} |-> IdleFrame]
    /\ hist = [t \in {1} |-> NoHist]
    /\ stats = NoStats
    /\ op = "init"
    /\ server = "any"
    /\ calls_left = 1
    /\ NoLocalRegistry
    /\ NoDict
    /\ NoParser

SpecWalk == InitWalk /\ [][Next]_vars

\* ------------------------------------------------------------------------
\* One has_package call against a server whose next links may lead back to a
\* page already served

InitCycle ==
    /\ packages_cache = Unfetched
    /\ package_files_cache = EmptyDict
    /\ call = [t \in {1} |-> IdleFrame]
    /\ hist = [t \in {1} |-> NoHist]
    /\ stats = NoStats
    /\ op = "init"
    /\ server = "cyclic"
    /\ calls_left = 1
    /\ NoLocalRegistry
    /\ NoDict
    /\ NoParser

SpecCycle == InitCycle /\ [][Next]_vars

\* ------------------------------------------------------------------------
\* Two callers share one GitLabRegistry: their has_package calls interleave
\* request by request

InitRace ==
    /\ packages_cache = Unfetched
    /\ package_files_cache = EmptyDict
    /\ call = [t \in {1, 2} |-> IdleFrame]
    /\ hist = [t \in {1, 2} |-> NoHist]
    /\ stats = NoStats
    /\ op = "init"
    /\ server = "small"
    /\ calls_left = MaxCalls
    /\ NoLocalRegistry
    /\ NoDict
    /\ NoParser

SpecRace == InitRace /\ [][Next]_vars

\* ------------------------------------------------------------------------
\* Vocabulary of the properties

\* the spec's ProtocolError and HashConflictError: the code raises RuntimeError
\* for both, with these messages
ProtocolError(o) ==
    o.exc = "RuntimeError" /\ o.value \in {FailedToRead, UnexpectedFormat}
HashConflictError(o) == o.exc = "RuntimeError" /\ o.value = HashMismatch

\* thread t's has_package call has just ended (nothing was done since)
Returned(t) == call[t].pc = "done" /\ op # "clear_cache"

\* the packages of the fetched list whose name is the requested one
Matching(f) ==
    {i \in 1..Len(f.packages) :
        "name" \in DOMAIN f.packages[i]
            /\ f.packages[i].name = f.package_name}

\* the file list of packages[i] is in the cache
Listed(f, i) == f.packages[i].id \in DOMAIN package_files_cache
FileList(f, i) == package_files_cache[f.packages[i].id]

\* positions <<i, j>> of the file records named file_name in matching packages
\* with a fetched file list
Hits(f) ==
    {<<i, j>> \in (1..Len(f.packages)) \X (1..2 * MaxPages) :
        /\ i \in Matching(f)
        /\ Listed(f, i)
        /\ j <= Len(FileList(f, i))
        /\ "file_name" \in DOMAIN FileList(f, i)[j]
        /\ FileList(f, i)[j].file_name = f.file_name}

Before(p, q) == p[1] < q[1] \/ (p[1] = q[1] /\ p[2] < q[2])

\* the scan of packages in fetch order and files in fetch order reaches hit h:
\* every matching package before it is listed and no hit comes before it
Reached(f, h) ==
    /\ h \in Hits(f)
    /\ \A i \in Matching(f) : i < h[1] => Listed(f, i)
    /\ \A g \in Hits(f) : ~Before(g, h)

\* the record field that holds the hash of algorithm alg
AlgField(alg) == IF alg = "md5" THEN "file_md5" ELSE "file_sha256"

\* the file_<hash_alg> field of the record at hit h equals expected_hash
\* (an absent field reads as None)
HashAgrees(f, h) ==
    LET rec == FileList(f, h[1])[h[2]]
    IN  IF AlgField(f.hash_alg) \in DOMAIN rec
        THEN rec[AlgField(f.hash_alg)] = f.expected_hash
        ELSE f.expected_hash = None

\* ------------------------------------------------------------------------
\* C1: when the scan of has_package reaches a file record with the requested
\* file_name whose file_<hash_alg> field differs from expected_hash, the call
\* raises the hash-conflict error; it returns neither false nor true.
C1_HashConflictIsRaised ==
    \A t \in Threads :
        Returned(t) =>
            \A h \in Hits(call[t]) :
                (Reached(call[t], h) /\ ~HashAgrees(call[t], h))
                    => HashConflictError(call[t].outcome)

\* a call ended at a record named "f" whose hash differs, in the second of two
\* packages named "a"
C1_Witness ==
    \E t \in Threads :
        /\ Returned(t)
        /\ \E h \in Hits(call[t]) :
              /\ Reached(call[t], h)
              /\ ~HashAgrees(call[t], h)
              /\ h[1] > 1
        /\ HashConflictError(call[t].outcome)

\* C2: has_package returns true when the first file record named file_name,
\* scanning packages and files in fetch order, inside a package named
\* package_name has a file_<hash_alg> field equal to expected_hash.
C2_FirstMatchReturnsTrue ==
    \A t \in Threads :
        Returned(t) =>
            \A h \in Hits(call[t]) :
                (Reached(call[t], h) /\ HashAgrees(call[t], h))
                    => call[t].outcome = Return("True")

\* true was returned for a first record that agrees although a later record
\* of the same name does not
C2_Witness ==
    \E t \in Threads :
        /\ Returned(t)
        /\ call[t].outcome = Return("True")
        /\ \E h, g \in Hits(call[t]) :
              /\ Reached(call[t], h)
              /\ HashAgrees(call[t], h)
              /\ Before(h, g)
              /\ ~HashAgrees(call[t], g)

\* C3: has_package returns false exactly when no file record named file_name
\* exists in any package named package_name: every package of that name has
\* had its file list examined, and packages of other names raise nothing.
C3_FalseIffNoSuchFile ==
    \A t \in Threads :
        (Returned(t) /\ ~ProtocolError(call[t].outcome)) =>
            (call[t].outcome = Return("False")
                <=> /\ \A i \in Matching(call[t]) : Listed(call[t], i)
                    /\ Hits(call[t]) = {})

\* false was returned after two packages of the requested name, neither
\* holding the file, were examined among packages of other names
C3_Witness ==
    \E t \in Threads :
        /\ Returned(t)
        /\ call[t].outcome = Return("False")
        /\ Cardinality({call[t].packages[i].id : i \in Matching(call[t])}) = 2
        /\ Cardinality(Matching(call[t])) < Len(call[t].packages)
        /\ \E i \in Matching(call[t]) : Len(FileList(call[t], i)) > 0

\* C4: with expected_hash absent (None) the remote has_package still decides a
\* name match by comparing the record's file_<hash_alg> field with
\* expected_hash: a record that carries the field raises the hash conflict,
\* and true is returned only for a record whose field is absent as well.
C4_NoneIsStillCompared ==
    \A t \in Threads :
        (Returned(t) /\ call[t].expected_hash = None) =>
            \A h \in Hits(call[t]) :
                Reached(call[t], h) =>
                    LET rec == FileList(call[t], h[1])[h[2]]
                    IN  IF AlgField(call[t].hash_alg) \in DOMAIN rec
                        THEN HashConflictError(call[t].outcome)
                        ELSE call[t].outcome = Return("True")

\* a call without expected_hash met a record that carries the hash field
C4_Witness ==
    \E t \in Threads :
        /\ Returned(t)
        /\ call[t].expected_hash = None
        /\ \E h \in Hits(call[t]) :
              /\ Reached(call[t], h)
              /\ AlgField(call[t].hash_alg)
                    \in DOMAIN FileList(call[t], h[1])[h[2]]
        /\ HashConflictError(call[t].outcome)

\* ------------------------------------------------------------------------
\* C5: once a cache slot (the package list, or the file list of a package id)
\* is populated, no step of a has_package call changes it; only clear_cache
\* does.  A slot populated with the empty list is kept like any other.
C5_PopulatedSlotsAreKept ==
    [][op' # "clear_cache" =>
          /\ packages_cache.fetched => packages_cache' = packages_cache
          /\ \A id \in DOMAIN package_files_cache :
                /\ id \in DOMAIN package_files_cache'
                /\ package_files_cache'[id] = package_files_cache[id]]_vars

\* a second call, with no clear_cache since the first, ran on the cached empty
\* package list without a request
C5_Witness ==
    \E t \in Threads :
        /\ Returned(t)
        /\ hist[t].prev.valid
        /\ hist[t].prev.reqs # <<>>
        /\ packages_cache = Fetched(<<>>)
        /\ hist[t].reqs = <<>>

\* C6 as stated: with no clear_cache in between, at most one pagination walk
\* is started for the package list and for the file list of each package id.
C6_AtMostOneWalkStarted ==
    \A e \in Endpoints : stats.started[e] <= 1

\* C6, amended: once a walk of an endpoint has completed, no further walk is
\* started for that endpoint (and none completes) until clear_cache; only a
\* walk that failed is started again.
C6_NoWalkAfterCompletion ==
    [][op' # "clear_cache" =>
          \A e \in Endpoints :
              stats.completed[e] >= 1 =>
                  /\ stats'.started[e] = stats.started[e]
                  /\ stats'.completed[e] = stats.completed[e]]_vars

\* a call ended without any request after an earlier call had walked the
\* package list and a file list to completion
C6_Witness ==
    \E t \in Threads :
        /\ Returned(t)
        /\ hist[t].reqs = <<>>
        /\ stats.started[PackagesEndpoint] = 1
        /\ stats.completed[PackagesEndpoint] = 1
        /\ \E id \in PackageIds : stats.completed[FilesEndpoint(id)] = 1

\* the matching packages whose file list the scan of a ended call examined:
\* those with no hit in a package before them
Examined(f) == {i \in Matching(f) : \A h \in Hits(f) : h[1] >= i}

Range(seq) == {seq[k] : k \in 1..Len(seq)}

\* C7: clear_cache leaves both the package-list slot and the whole file-list
\* mapping unfetched, and the has_package call that follows it requests the
\* package list first and requests the file list of every matching package
\* it examines.
C7_ClearResetsAndRefetches ==
    /\ op = "clear_cache" =>
          packages_cache = Unfetched /\ package_files_cache = EmptyDict
    /\ \A t \in Threads :
          (hist[t].after_clear /\ call[t].pc # "idle") =>
              /\ hist[t].reqs = <<>> =>
                    /\ call[t].pc = "request"
                    /\ call[t].current_url = <<"base/packages", "?per_page=", "100">>
              /\ hist[t].reqs # <<>> =>
                    hist[t].reqs[1] = <<"base/packages", "?per_page=", "100">>
              /\ (Returned(t) /\ ~ProtocolError(call[t].outcome)) =>
                    \A i \in Examined(call[t]) :
                        FirstUrl(ApiUrl(FilesEndpoint(call[t].packages[i].id)))
                            \in Range(hist[t].reqs)

\* the call after a clear_cache that dropped a fetched package list found the
\* file, having requested the package list and a file list again
C7_Witness ==
    \E t \in Threads :
        /\ Returned(t)
        /\ hist[t].after_clear
        /\ stats.wiped
        /\ call[t].outcome = Return("True")
        /\ Len(hist[t].reqs) >= 2

\* the call of thread t that has just ended repeats, with no clear_cache in
\* between, the arguments of the call before it
Repeated(t) ==
    /\ Returned(t)
    /\ hist[t].prev.valid
    /\ hist[t].prev.file_name = call[t].file_name
    /\ hist[t].prev.package_name = call[t].package_name
    /\ hist[t].prev.hash_alg = call[t].hash_alg
    /\ hist[t].prev.expected_hash = call[t].expected_hash

\* C8 as stated: a has_package call repeated with the same arguments and no
\* clear_cache in between ends like the first and issues no request the first
\* one issued.
C8_RepeatedCallIsIdempotent ==
    \A t \in Threads :
        Repeated(t) =>
            /\ call[t].outcome = hist[t].prev.outcome
            /\ Range(hist[t].reqs) \cap Range(hist[t].prev.reqs) = {}

\* C8, amended: when the first call did not end in an API failure (it
\* returned a bool or raised the hash conflict), the repeated call ends the
\* same way and issues no request at all.
C8_RepeatAfterSuccessIsIdempotent ==
    \A t \in Threads :
        (Repeated(t) /\ ~ProtocolError(hist[t].prev.outcome)) =>
            /\ call[t].outcome = hist[t].prev.outcome
            /\ hist[t].reqs = <<>>

\* a call that had fetched and raised the hash conflict was repeated
C8_Witness ==
    \E t \in Threads :
        /\ Repeated(t)
        /\ HashConflictError(hist[t].prev.outcome)
        /\ Len(hist[t].prev.reqs) >= 2
        /\ HashConflictError(call[t].outcome)

\* ------------------------------------------------------------------------
\* Pagination walks

\* the URL that a response's Link header gives for rel=next, read off the
\* headers the server sends: NoneText when there is no Link header or no next
\* relation in it, the empty text for <>; rel="next"
NextLink(resp) ==
    IF "Link" \notin DOMAIN resp.headers THEN NoneText
    ELSE IF \E u \in NextUrls : resp.headers.Link = LinkNext(u)
         THEN CHOOSE u \in NextUrls : resp.headers.Link = LinkNext(u)
         ELSE IF resp.headers.Link = LinkPrevNext(<<"u1">>) THEN <<"u1">>
              ELSE IF resp.headers.Link = LinkEmptyNext THEN <<>>
                   ELSE NoneText

\* the items of pages 1..k, in page order
RECURSIVE Items(_, _)
Items(resps, k) ==
    IF k = 0 THEN <<>> ELSE Items(resps, k - 1) \o resps[k].body

\* the walk of thread t requested the first URL of its endpoint and then, page
\* by page, the URL of the rel=next link of the response before, and holds
\* the items of all its pages in order
FollowedChain(t) ==
    LET rq == hist[t].wreqs
        rs == hist[t].wresps
    IN  /\ Len(rq) >= 1
        /\ Len(rs) = Len(rq)
        /\ rq[1] = ApiUrl(call[t].endpoint) \o <<"?per_page=", "100">>
        /\ \A k \in 1..(Len(rq) - 1) :
              /\ NextLink(rs[k]) \notin {NoneText, <<>>}
              /\ rq[k + 1] = NextLink(rs[k])
        /\ \A k \in 1..Len(rs) : rs[k].kind = "list"
        /\ call[t].results = Items(rs, Len(rs))

LastResponse(t) == hist[t].wresps[Len(hist[t].wresps)]

\* C9 as stated: a walk that meets no failure requests exactly the chain of
\* rel=next links from the initial URL, stops at the first response that has
\* no Link header or no next relation, and returns the items of all pages in
\* page order.
C9_WalkFollowsNextLinks ==
    \A t \in Threads :
        call[t].pc = "store" =>
            /\ FollowedChain(t)
            /\ NextLink(LastResponse(t)) = NoneText

\* C9, amended: the walk also stops at a response whose next relation carries
\* an empty URL (Link: <>; rel="next"); everything else as stated.
C9_WalkFollowsNonEmptyNextLinks ==
    \A t \in Threads :
        call[t].pc = "store" =>
            /\ FollowedChain(t)
            /\ NextLink(LastResponse(t)) \in {NoneText, <<>>}

\* a walk returned two pages of items, the second fetched from the URL U2 of
\* the first page's next link and ending the walk with a header without next
C9_Witness ==
    \E t \in Threads :
        /\ call[t].pc = "store"
        /\ Len(hist[t].wreqs) = 2
        /\ hist[t].wreqs[2] = <<"U", "2">>
        /\ Len(hist[t].wresps[1].body) = 2
        /\ Len(call[t].results) = 4
        /\ call[t].results[1] # call[t].results[3]
        /\ "Link" \in DOMAIN LastResponse(t).headers

\* the cache slot of an endpoint holds a list
SlotFetched(endpoint) ==
    IF endpoint = PackagesEndpoint THEN packages_cache.fetched
    ELSE endpoint[2] \in DOMAIN package_files_cache

\* C10: a page (first or later) whose GET fails, whose body is no JSON or
\* whose JSON is no list ends the walk with the API error: it is the last
\* request of the walk (no further page, no retry), the call ends with the
\* error, and the items read before reach neither the caller nor the cache.
C10_FailedPageAbortsWalk ==
    \A t \in Threads :
        \A k \in 1..Len(hist[t].wresps) :
            hist[t].wresps[k].kind # "list" =>
                /\ k = Len(hist[t].wresps)
                /\ k = Len(hist[t].wreqs)
                /\ call[t].pc = "done"
                /\ call[t].outcome.exc = "RuntimeError"
                /\ call[t].outcome.value =
                      IF hist[t].wresps[k].kind = "notlist"
                      THEN UnexpectedFormat ELSE FailedToRead
                /\ ~SlotFetched(call[t].endpoint)

\* the second page of a walk failed after a first page with items
C10_Witness ==
    \E t \in Threads :
        /\ Len(hist[t].wresps) = 2
        /\ hist[t].wresps[2].kind = "URLError"
        /\ hist[t].wresps[1].body # <<>>
        /\ call[t].pc = "done"
        /\ ProtocolError(call[t].outcome)

\* ------------------------------------------------------------------------
\* Error outcomes

\* what ended the call of thread t, read off what happened and not off the
\* exception: the last GET of its last walk failed or carried no list
ApiFailed(t) == hist[t].wresps # <<>> /\ LastResponse(t).kind # "list"

\* the scan reached a record of the requested name whose hash differs
HashDiffers(t) ==
    \E h \in Hits(call[t]) : Reached(call[t], h) /\ ~HashAgrees(call[t], h)

\* C11 as stated: an API failure and a hash conflict surface as two distinct
\* outcome kinds: the exception a call raises for the one is of another kind
\* than the exception a call raises for the other.
C11_ErrorKindsAreDistinct ==
    \A t \in Threads :
        (Returned(t) /\ hist[t].prev.valid
            /\ ProtocolError(hist[t].prev.outcome) /\ HashDiffers(t))
            => call[t].outcome.exc # hist[t].prev.outcome.exc

\* C11, amended: every error outcome is a RuntimeError, raised exactly for an
\* API failure (URLError, JSONDecodeError, non-list payload) or a hash
\* conflict; the cause is told by the message alone: "Failed to read data" or
\* "Unexpected response format" exactly for an API failure, "Hash of ... does
\* not match" exactly for a hash conflict; URLError and JSONDecodeError are
\* chained as the cause, the other two errors carry none.
C11_MessageIdentifiesCause ==
    \A t \in Threads :
        Returned(t) =>
            LET o == call[t].outcome
            IN  /\ o.exc \in {None, "RuntimeError"}
                /\ o.exc = "RuntimeError" <=> (ApiFailed(t) \/ HashDiffers(t))
                /\ ApiFailed(t) <=> o.value \in {FailedToRead, UnexpectedFormat}
                /\ HashDiffers(t) <=> o.value = HashMismatch
                /\ o.value = FailedToRead <=>
                      (ApiFailed(t) /\ LastResponse(t).kind # "notlist")
                /\ o.cause = IF o.value = FailedToRead
                             THEN LastResponse(t).kind ELSE None

\* a call that failed on the API was followed by one that raised the hash
\* conflict: both raised RuntimeError, with different messages
C11_Witness ==
    \E t \in Threads :
        /\ Returned(t)
        /\ hist[t].prev.valid
        /\ hist[t].prev.outcome.value = UnexpectedFormat
        /\ HashDiffers(t)
        /\ call[t].outcome.exc = hist[t].prev.outcome.exc
        /\ call[t].outcome.value # hist[t].prev.outcome.value

\* ------------------------------------------------------------------------
\* LocalRegistry.has_package

\* the file named index_root/package_name/file_name
IndexedFile(index, package_name, file_name) ==
    Norm(index \o <<"/">> \o package_name \o <<"/">> \o file_name)

\* the file os.path.join names: an absolute file_name names itself, an
\* absolute package_name drops index_path
JoinedFile(index, package_name, file_name) ==
    Norm(IF Len(file_name) > 0 /\ file_name[1] = "/" THEN file_name
         ELSE IF Len(package_name) > 0 /\ package_name[1] = "/"
              THEN package_name \o <<"/">> \o file_name
              ELSE index \o <<"/">> \o package_name \o <<"/">> \o file_name)

\* the call on the file at path ended as C12 says: true exactly when the file
\* exists and expected_hash is absent, empty or the file's hash; else false,
\* never an error; the hash capability is used only on a file that exists,
\* for an expected_hash that is given, and then once, on that file and with
\* hash_alg
LocalContract(path) ==
    LET present == path \in disk
        given == local.expected_hash \notin {None, ""}
    IN  /\ local.outcome \in {Return("True"), Return("False")}
        /\ local.outcome = Return("True") <=>
              /\ present
              /\ given =>
                    hash_file_func[<<path, local.hash_alg>>]
                        = local.expected_hash
        /\ (~present \/ ~given) => local.hash_calls = <<>>
        /\ (present /\ given) =>
              /\ Len(local.hash_calls) = 1
              /\ Norm(local.hash_calls[1][1]) = path
              /\ local.hash_calls[1][2] = local.hash_alg

\* C12 as stated: the file looked at is index_root/package_name/file_name.
C12_IndexedFileDecides ==
    local.pc = "done" =>
        LocalContract(IndexedFile(index_path, local.package_name,
                                  local.file_name))

\* C12, amended: the file looked at is the one os.path.join(index_path,
\* package_name, file_name) names, which is index_root/package_name/file_name
\* unless package_name or file_name starts with "/".
C12_JoinedFileDecides ==
    local.pc = "done" =>
        LocalContract(JoinedFile(index_path, local.package_name,
                                 local.file_name))

\* a call found the file with another hash than the expected one and
\* returned false, having hashed the file once
C12_Witness ==
    /\ local.pc = "done"
    /\ local.file_name = <<"f">>
    /\ local.package_name = <<"a">>
    /\ local.expected_hash = "h2"
    /\ <<"idx", "/", "a", "/", "f">> \in disk
    /\ hash_file_func[<<<<"idx", "/", "a", "/", "f">>, local.hash_alg>>] = "h1"
    /\ local.outcome = Return("False")
    /\ Len(local.hash_calls) = 1

\* ------------------------------------------------------------------------
\* The URLs of a walk

\* the URL of the first request of a walk of an endpoint, written out
InitialUrl(endpoint) ==
    IF endpoint = PackagesEndpoint
    THEN <<"base/packages", "?per_page=", "100">>
    ELSE IF endpoint[2] = 1
         THEN <<"base/packages/", "1", "/package_files", "?per_page=", "100">>
         ELSE <<"base/packages/", "2", "/package_files", "?per_page=", "100">>

\* C13: the first request of a pagination walk goes to the API URL with
\* "?per_page=100" appended, and every later request goes to exactly the URL
\* the Link header of the response before it gave for rel=next (its case and
\* its text unchanged); the same holds of the URL a walk is about to request.
C13_RequestsAreVerbatim ==
    \A t \in Threads :
        LET rq == hist[t].wreqs
            rs == hist[t].wresps
        IN  /\ Len(rq) >= 1 => rq[1] = InitialUrl(call[t].endpoint)
            /\ \A k \in 2..Len(rq) : rq[k] = NextLink(rs[k - 1])
            /\ call[t].pc = "request" =>
                  call[t].current_url =
                      IF rq = <<>> THEN InitialUrl(call[t].endpoint)
                      ELSE NextLink(rs[Len(rs)])

\* the walk of a file list went on to U2, the URL its first page named for
\* rel=next, in the case the header wrote it in
C13_Witness ==
    \E t \in Threads :
        /\ call[t].endpoint = FilesEndpoint(2)
        /\ Len(hist[t].wreqs) = 2
        /\ hist[t].wreqs[1] =
              <<"base/packages/", "2", "/package_files", "?per_page=", "100">>
        /\ hist[t].wresps[1].headers = [Link |-> LinkNext(<<"U", "2">>)]
        /\ hist[t].wreqs[2] = <<"U", "2">>

\* ------------------------------------------------------------------------
\* ListExtendingOrderedDict.__setitem__

C15_NoUrlRequestedTwice ==
    \A t \in Threads :
        \A i, j \in 1..Len(hist[t].wreqs) :
            i # j => hist[t].wreqs[i] # hist[t].wreqs[j]

\* C15, amended: a walk ends only at a page that fails or that gives no
\* non-empty rel=next URL; after any other page it goes on to request the URL
\* that page gave, whether or not the walk has requested that URL before.
C15_WalkEndsOnlyWhereChainEnds ==
    \A t \in Threads :
        hist[t].wresps # <<>> =>
            /\ call[t].pc = "request" <=>
                  /\ LastResponse(t).kind = "list"
                  /\ NextLink(LastResponse(t)) \notin {NoneText, <<>>}
            /\ call[t].pc = "request" =>
                  call[t].current_url = NextLink(LastResponse(t))

\* a walk requested u1 twice in a row and is about to request it again
C15_Witness ==
    \E t \in Threads :
        /\ Len(hist[t].wreqs) = 3
        /\ hist[t].wreqs[2] = <<"u1">>
        /\ hist[t].wreqs[3] = <<"u1">>
        /\ call[t].pc = "request"
        /\ call[t].current_url = <<"u1">>
        /\ Len(call[t].results) = 6

\* ------------------------------------------------------------------------
\* What a failed call leaves behind

\* C16: a page that fails ends the call and changes no cache slot; from then
\* on the slot of the walk's endpoint is unfetched, whatever the walk had
\* read; the has_package call that follows (for the same file_name and
\* package_name, no clear_cache in between) gets to that endpoint without a
\* request and starts its walk at the first page.  A call that ends in the hash conflict has changed no slot
\* that was populated, and the file list in which it found the record is
\* in the cache.
C16_FailedCallKeepsCacheSound ==
    [][\A t \in Threads :
          /\ ApiFailed(t) =>
                /\ call[t].pc = "done"
                /\ ~SlotFetched(call[t].endpoint)
          /\ (op' = "fetch_page" /\ call'[t] # call[t]
                /\ hist'[t].wresps[Len(hist'[t].wresps)].kind # "list") =>
                /\ call'[t].pc = "done"
                /\ packages_cache' = packages_cache
                /\ package_files_cache' = package_files_cache
          /\ (op' = "has_package" /\ call'[t] # call[t] /\ ApiFailed(t)
                /\ op # "clear_cache"
                /\ call'[t].package_name = call[t].package_name
                /\ call'[t].file_name = call[t].file_name) =>
                /\ call'[t].pc = "request"
                /\ call'[t].endpoint = call[t].endpoint
                /\ call'[t].current_url = InitialUrl(call[t].endpoint)
                /\ call'[t].results = <<>>
                /\ hist'[t].reqs = <<>>
          /\ (call'[t] # call[t] /\ call'[t].pc = "done"
                /\ HashConflictError(call'[t].outcome)) =>
                /\ packages_cache'.fetched
                /\ packages_cache.fetched => packages_cache' = packages_cache
                /\ \A id \in DOMAIN package_files_cache :
                      /\ id \in DOMAIN package_files_cache'
                      /\ package_files_cache'[id] = package_files_cache[id]
                /\ HashDiffers(t)']_vars

\* the second page of a file-list walk failed, with the package list and
\* nothing else cached, and the next call is at the first page of that walk
C16_Witness ==
    \E t \in Threads :
        /\ hist[t].prev.valid
        /\ ProtocolError(hist[t].prev.outcome)
        /\ Len(hist[t].prev.reqs) = 3
        /\ call[t].pc = "request"
        /\ call[t].endpoint # PackagesEndpoint
        /\ hist[t].reqs = <<>>
        /\ packages_cache.fetched
        /\ package_files_cache = EmptyDict

\* ------------------------------------------------------------------------
\* Two interleaved calls

\* C17: the cache-or-fetch step is not atomic.  A call that finds the
\* package-list slot unfetched starts the walk of the package list whether
\* or not another call is in the middle of that walk, and a call whose walk
\* of the package list returns stores its list whether or not the slot has
\* been filled in the meantime.  (C17_Witness is the state the claim says is
\* reachable.)
C17_CacheOrFetchIsNotAtomic ==
    [][\A t \in Threads :
          /\ (op' = "has_package" /\ call'[t] # call[t]
                /\ ~packages_cache.fetched) =>
                /\ call'[t].pc = "request"
                /\ call'[t].endpoint = PackagesEndpoint
          /\ (op' = "store_results" /\ call'[t] # call[t]
                /\ call[t].endpoint = PackagesEndpoint) =>
                packages_cache' = Fetched(call[t].results)]_vars

\* two calls have each requested the package list, with no clear_cache since
\* the first request; both walks completed; the slot holds the list of the
\* call that stored last, which is not the list the other call stored
C17_Witness ==
    \E t, u \in Threads :
        /\ t # u
        /\ hist[t].reqs # <<>> /\ hist[u].reqs # <<>>
        /\ hist[t].reqs[1] = InitialUrl(PackagesEndpoint)
        /\ hist[u].reqs[1] = InitialUrl(PackagesEndpoint)
        /\ ~hist[t].prev.valid /\ ~hist[u].prev.valid
        /\ stats.started[PackagesEndpoint] = 2
        /\ stats.completed[PackagesEndpoint] = 2
        /\ call[t].packages # <<>>
        /\ call[u].packages # <<>>
        /\ call[t].packages # call[u].packages
        /\ packages_cache = Fetched(call[u].packages)


\* ------------------------------------------------------------------------
\* C18: sections are processed in header order, last write wins

\* the call of _parse_link_header has returned
ParserReturned == parser.pc = "returned"

\* the keys a section carries: those of the tokens of its rel parameters,
\* when the section starts with a bracketed URL
CarriedKeys(s) ==
    IF ~s.first.bracketed THEN {}
    ELSE UNION { {s.params[j].toks[n].key : n \in DOMAIN s.params[j].toks} :
                   j \in { j \in DOMAIN s.params :
                              /\ Lower(s.params[j].name) = REL
                              /\ s.params[j].eq # <<>> } }

\* the sections of the parsed header that carry key
Carriers(key) ==
    {i \in DOMAIN parser.sections : key \in CarriedKeys(parser.sections[i])}

\* the last of a non-empty set of section numbers
Last(is) == CHOOSE i \in is : \A j \in is : j <= i

\* every key the sections of the parsed header carry
AllCarriedKeys ==
    UNION {CarriedKeys(parser.sections[i]) : i \in DOMAIN parser.sections}

\* C18: once _parse_link_header has returned, every relation token carried
\* by one or more sections of the header is a key of the result, and its
\* value is the URL of the last of these sections in header order.
C18_LastSectionWins ==
    ParserReturned =>
        \A key \in AllCarriedKeys :
            /\ key \in DOMAIN parser.links
            /\ parser.links[key]
                 = parser.sections[Last(Carriers(key))].first.url

\* a header whose two sections carry "next" with different URLs has been
\* parsed, and "next" maps to the URL of the second
C18_Witness ==
    /\ ParserReturned
    /\ Carriers(NEXT) = {1, 2}
    /\ parser.sections[1].first.url # parser.sections[2].first.url
    /\ parser.links[NEXT] = parser.sections[2].first.url


\* ------------------------------------------------------------------------
\* C19: malformed sections and parameters are skipped, the rest still counts

\* a section whose first segment is of the form <...>
IsBracketed(s) == s.first.bracketed

\* a parameter with an "="
HasEquals(p) == p.eq # <<>>

\* the header without its malformed parts: the bracketed sections, each
\* with its parameters that have an "="
WellFormedPart(ss) ==
    LET good == SelectSeq(ss, IsBracketed)
    IN  [i \in DOMAIN good |->
           [good[i] EXCEPT !.params = SelectSeq(good[i].params, HasEquals)]]

\* the parsed header has a malformed part: an unbracketed section or a
\* parameter without "="
HasMalformedPart ==
    \E i \in DOMAIN parser.sections :
        \/ ~IsBracketed(parser.sections[i])
        \/ \E j \in DOMAIN parser.sections[i].params :
               ~HasEquals(parser.sections[i].params[j])

\* C19: _parse_link_header returns a mapping for every header, malformed
\* or not.  A section whose first segment is not <...> and a parameter
\* without "=" add no key, every relation of the other sections and
\* parameters is a key of the result, and the result is the one the header
\* gives without its malformed parts.  An empty or absent header gives the
\* empty mapping.
C19_MalformedPartsContributeNothing ==
    ParserReturned =>
        /\ DOMAIN parser.links = AllCarriedKeys
        /\ parser.links
             = _parse_link_header(RenderHeader(WellFormedPart(parser.sections), 1))
        /\ parser.link_header \in {NoneText, <<>>} => parser.links = EmptyDict

\* a header with an unbracketed section that names "next" and a bracketed
\* section with a parameter without "=" beside rel="prev" has been parsed:
\* the result holds "prev" alone
C19_Witness ==
    /\ ParserReturned
    /\ \E i \in DOMAIN parser.sections :
           /\ ~IsBracketed(parser.sections[i])
           /\ \E j \in DOMAIN parser.sections[i].params :
                  parser.sections[i].params[j] = RelQuoted(<<TokNext>>)
    /\ \E i \in DOMAIN parser.sections :
           /\ IsBracketed(parser.sections[i])
           /\ parser.sections[i].params
                = <<NoEquals(NEXT), RelQuoted(<<TokPrev>>)>>
    /\ DOMAIN parser.links = {PREV}


\* ------------------------------------------------------------------------
\* C20: what a rel parameter contributes

\* a rel parameter: named rel in any case, with an "="
IsRel(p) == Lower(p.name) = REL /\ HasEquals(p)

\* the keys a rel parameter stands for: those of every token of a quoted
\* value, that of the whole of an unquoted value
RelKeys(p) ==
    IF p.quoted THEN {p.toks[n].key : n \in DOMAIN p.toks}
    ELSE {p.toks[1].key}

\* the keys of the rel parameters of a section
SectionRelKeys(s) ==
    UNION {RelKeys(s.params[j]) : j \in {j \in DOMAIN s.params : IsRel(s.params[j])}}

\* C20: once _parse_link_header has returned, a header of one bracketed
\* section gives exactly the lowercased tokens of its rel parameters (each
\* token of a quoted value, the whole of an unquoted one) as keys, all
\* mapped to the section's URL as written; and in every header each key of
\* the result is such a token of a bracketed section and its value that
\* section's URL as written, so that other parameters add nothing.
C20_RelTokensMapToSectionUrl ==
    ParserReturned =>
        /\ (Len(parser.sections) = 1 /\ IsBracketed(parser.sections[1]))
              => parser.links = [key \in SectionRelKeys(parser.sections[1])
                                   |-> parser.sections[1].first.url]
        /\ \A key \in DOMAIN parser.links :
               \E i \in DOMAIN parser.sections :
                   /\ IsBracketed(parser.sections[i])
                   /\ key \in SectionRelKeys(parser.sections[i])
                   /\ parser.links[key] = parser.sections[i].first.url

\* ` <U2> ; rel="prev Next"` followed by `<u1>; rel=next Prev` has been
\* parsed: "prev" and "next" map to U2, and "next prev" is one key, for u1
C20_Witness ==
    /\ ParserReturned
    /\ Len(parser.sections) = 2
    /\ parser.sections[1].params = <<RelQuoted(<<TokPrev, TokNextCapital>>)>>
    /\ parser.sections[2].params = <<RelUnquoted(TokTwoWords)>>
    /\ parser.links = [key \in {PREV, NEXT, TokTwoWords.key} |->
                         IF key = TokTwoWords.key THEN <<"u1">>
                         ELSE <<"U", "2">>]

=============================================================================
